---- MODULE Spec2Model ----
(***************************************************************************)
(* Model of the LeetCode workbook: the list exercises of lists/ and the    *)
(* User / BankAccount classes of OOP/oop_showcase.py.  Every exercise is a *)
(* self-contained script or function; `prog` selects the one being run and *)
(* Init draws its input.  Python lists are sequences; Python index i is    *)
(* position i+1 of the sequence.                                           *)
(***************************************************************************)
EXTENDS Integers, Sequences, FiniteSets, TLC

\* ---------------------------------------------------------------- bounds
MaxLen == 4        \* longest input list
MaxVal == 2        \* list elements are drawn from -MaxVal..MaxVal
NumUsers == 2      \* number of variables that may hold a User object
MaxAge == 2        \* ages are drawn from -MaxAge..MaxAge
MaxBalance == 4    \* cap on the balance of the account
MaxAmount == 3     \* amounts are drawn from -1..MaxAmount
NumEvents == 2     \* events are 1..NumEvents
NumListeners == 2  \* listeners are 1..NumListeners
MaxRegs == 3       \* cap on the registrations held by the emitter

MinVal == 0 - MaxVal
Vals == MinVal..MaxVal
Lists == UNION {[1..n -> Vals] : n \in 0..MaxLen}

\* ------------------------------------------------------- Python values
\* None is the empty option, a returned value v is the option {v}.
None == {}
Some(v) == {v}
\* float("-inf"): below every element of every input list.
NegInf == MinVal - 1
\* nums[i] with a 0-based, non-negative index
At(s, i) == s[i + 1]
\* abs(x)
Abs(x) == IF x < 0 THEN 0 - x ELSE x
\* set(nums)
SetOf(s) == {s[i] : i \in DOMAIN s}

\* max(nums) of a non-empty list, scanned left to right
RECURSIVE MaxFrom(_, _, _)
MaxFrom(s, i, m) ==
    IF i > Len(s) THEN m
    ELSE MaxFrom(s, i + 1, IF s[i] > m THEN s[i] ELSE m)
Max(s) == MaxFrom(s, 2, s[1])

\* max(s) of a non-empty set
SetMax(S) == CHOOSE m \in S : \A x \in S : x <= m

\* sum(nums[:k])
RECURSIVE Sum(_)
Sum(s) == IF s = <<>> THEN 0 ELSE s[1] + Sum(Tail(s))

\* insertion of x into a list sorted in non-decreasing order
RECURSIVE InsertAsc(_, _)
InsertAsc(x, s) ==
    IF s = <<>> THEN <<x>>
    ELSE IF x <= s[1] THEN <<x>> \o s
    ELSE <<s[1]>> \o InsertAsc(x, Tail(s))

\* list.sort() / sorted(nums)
RECURSIVE SortAsc(_)
SortAsc(s) == IF s = <<>> THEN <<>> ELSE InsertAsc(s[1], SortAsc(Tail(s)))

\* reversed copy of a list
Reverse(s) == [i \in 1..Len(s) |-> s[Len(s) + 1 - i]]

\* sorted(nums, reverse=True)
SortDesc(s) == Reverse(SortAsc(s))

IsSorted(s) == \A i \in 1..(Len(s) - 1) : s[i] <= s[i + 1]
SortedLists == {s \in Lists : IsSorted(s)}

\* ------------------------------------------- second_largest_value_in_list
RECURSIVE yours_loop(_, _, _, _)
yours_loop(nums_, i, maximum, maxtwo) ==
    IF i > Len(nums_) THEN maxtwo
    ELSE LET num == nums_[i] IN
         yours_loop(nums_, i + 1, maximum,
                    IF num > maxtwo /\ num # maximum THEN num ELSE maxtwo)

second_largest_yours(nums_) ==
    IF nums_ = <<>> THEN None
    ELSE LET maxtwo == yours_loop(nums_, 1, Max(nums_), NegInf) IN
         IF maxtwo # NegInf THEN Some(maxtwo) ELSE None

RECURSIVE two_pass_loop(_, _, _, _)
two_pass_loop(nums_, i, first, second) ==
    IF i > Len(nums_) THEN second
    ELSE LET x == nums_[i] IN
         two_pass_loop(nums_, i + 1, first,
                       IF x # first /\ x > second THEN x ELSE second)

second_largest_two_pass(nums_) ==
    IF nums_ = <<>> THEN None
    ELSE LET second == two_pass_loop(nums_, 1, Max(nums_), NegInf) IN
         IF second # NegInf THEN Some(second) ELSE None

\* one iteration of the loop of second_largest_one_pass on <<first, second>>
one_pass_body_NoStrict(fs, x) ==
    IF x > fs[1] THEN <<x, fs[1]>>
    ELSE IF x > fs[2] THEN <<fs[1], x>>
    ELSE fs

one_pass_body(fs, x) ==
    IF x > fs[1] THEN <<x, fs[1]>>
    ELSE IF fs[1] > x /\ x > fs[2] THEN <<fs[1], x>>
    ELSE fs

RECURSIVE one_pass_loop(_, _, _)
one_pass_loop(nums_, i, fs) ==
    IF i > Len(nums_) THEN fs
    ELSE one_pass_loop(nums_, i + 1, one_pass_body(fs, nums_[i]))

second_largest_one_pass(nums_) ==
    IF nums_ = <<>> THEN None
    ELSE LET second == one_pass_loop(nums_, 1, <<NegInf, NegInf>>)[2] IN
         IF second # NegInf THEN Some(second) ELSE None

\* the scan `for x in a[1:]` of second_largest_sort, a at position i
RECURSIVE sort_scan(_, _, _)
sort_scan(a, i, first) ==
    IF i > Len(a) THEN None
    ELSE IF a[i] < first THEN Some(a[i])
    ELSE sort_scan(a, i + 1, first)

second_largest_sort(nums_) ==
    IF nums_ = <<>> THEN None
    ELSE LET a == SortDesc(nums_) IN sort_scan(a, 2, a[1])

second_largest_set_KeepMax(nums_) ==
    LET s == SetOf(nums_) IN
    IF Cardinality(s) < 2 THEN None
    ELSE Some(SetMax(s))

second_largest_set(nums_) ==
    LET s == SetOf(nums_) IN
    IF Cardinality(s) < 2 THEN None
    ELSE Some(SetMax(s \ {SetMax(s)}))

\* ------------------------------------- level_one_foundations, Exercise 4
\* the loop of remove_duplicates_with_set; i is the iterator's index into
\* the list being overwritten; yields <<nums, write>>
RECURSIVE with_set_loop(_, _, _, _)
with_set_loop(nums_, i, seen, write) ==
    IF i >= Len(nums_) THEN <<nums_, write>>
    ELSE LET x == At(nums_, i) IN
         IF x \notin seen
         THEN with_set_loop([nums_ EXCEPT ![write + 1] = x], i + 1,
                            seen \cup {x}, write + 1)
         ELSE with_set_loop(nums_, i + 1, seen, write)

remove_duplicates_with_set_NoDel(nums_) ==
    with_set_loop(nums_, 0, {}, 0)[1]

remove_duplicates_with_set(nums_) ==
    LET st == with_set_loop(nums_, 0, {}, 0) IN
    SubSeq(st[1], 1, st[2])

\* the loop of remove_duplicates_no_set; seen is a dict used as boolean map
RECURSIVE no_set_loop(_, _, _, _)
no_set_loop(nums_, i, seen, write) ==
    IF i >= Len(nums_) THEN <<nums_, write>>
    ELSE LET x == At(nums_, i) IN
         IF x \notin DOMAIN seen
         THEN no_set_loop([nums_ EXCEPT ![write + 1] = x], i + 1,
                          seen @@ (x :> TRUE), write + 1)
         ELSE no_set_loop(nums_, i + 1, seen, write)

remove_duplicates_no_set(nums_) ==
    LET st == no_set_loop(nums_, 0, <<>>, 0) IN
    SubSeq(st[1], 1, st[2])

\* ------------------------------------ level_one_foundations, Exercise 11
\* Attempt 1: square every element, then output.sort()
squares_attempt1(nums_) ==
    SortAsc([i \in 1..Len(nums_) |-> nums_[i] * nums_[i]])

\* Attempt 2: the test `abs(nums[l]) > abs(nums[r])`
take_left_NoAbs(nums_, l_, r_) == At(nums_, l_) > At(nums_, r_)

take_left(nums_, l_, r_) == Abs(At(nums_, l_)) > Abs(At(nums_, r_))

\* ------------------------------------ level_one_foundations, Exercise 12
\* Attempt 2: the test `nums[mid] >= target`
go_left_Strict(v, target_) == v > target_

go_left(v, target_) == v >= target_

\* -------------------------------------------------- level_two_foundations
\* the loop `for r in range(k, n)` of sw_fixed_k_template
RECURSIVE sw_fixed_loop(_, _, _, _, _)
sw_fixed_loop(nums_, r_, l_, window, best) ==
    IF r_ >= Len(nums_) THEN best
    ELSE LET window2 == (window + At(nums_, r_)) - At(nums_, l_) IN
         sw_fixed_loop(nums_, r_ + 1, l_ + 1, window2,
                       IF window2 > best THEN window2 ELSE best)

sw_fixed_k_template_KeepFirst(nums_, k_) ==
    LET n == Len(nums_) IN
    IF k_ = 0 \/ k_ > n THEN None
    ELSE Some(Sum(SubSeq(nums_, 1, k_)))

sw_fixed_k_template(nums_, k_) ==
    LET n == Len(nums_) IN
    IF k_ = 0 \/ k_ > n THEN None
    ELSE LET window == Sum(SubSeq(nums_, 1, k_)) IN
         Some(sw_fixed_loop(nums_, k_, 0, window, window))

\* the body of max_average_subarray_lc643 is `pass`
max_average_subarray_lc643(nums_, k_) == None

\* the body of remove_duplicates_lc26 is a bare string literal: the list is
\* left as it is and nothing is returned
remove_duplicates_lc26(nums_) == [ret |-> None, nums |-> nums_]

\* the test `s < target` of tp_two_ends_template
tp_too_small_Swapped(s, target_) == s > target_

tp_too_small(s, target_) == s < target_

\* the loop `while l < r` of tp_two_ends_template
RECURSIVE tp_two_ends_loop(_, _, _, _)
tp_two_ends_loop(nums_, target_, l_, r_) ==
    IF ~(l_ < r_) THEN None
    ELSE LET s == At(nums_, l_) + At(nums_, r_) IN
         IF s = target_ THEN Some(<<l_, r_>>)
         ELSE IF tp_too_small(s, target_)
              THEN tp_two_ends_loop(nums_, target_, l_ + 1, r_)
              ELSE tp_two_ends_loop(nums_, target_, l_, r_ - 1)

tp_two_ends_template(nums_, target_) ==
    tp_two_ends_loop(nums_, target_, 0, Len(nums_) - 1)

\* freq[x] on a defaultdict(int): a missing key reads as 0
freq_get(freq, x) == IF x \in DOMAIN freq THEN freq[x] ELSE 0

\* freq[x] = v
freq_set(freq, x, v) ==
    [y \in DOMAIN freq \cup {x} |-> IF y = x THEN v ELSE freq[y]]

\* the window length `r - l + 1` of sw_at_most_k_distinct_template
sw_window_len_OffByOne(l_, r_) == r_ - l_

sw_window_len(l_, r_) == (r_ - l_) + 1

\* the loop `while distinct > k` on st = [freq, distinct, l]
RECURSIVE sw_shrink(_, _, _)
sw_shrink(arr, k_, st) ==
    IF ~(st.distinct > k_) THEN st
    ELSE LET y == At(arr, st.l)
             freq2 == freq_set(st.freq, y, freq_get(st.freq, y) - 1)
         IN  sw_shrink(arr, k_,
                       [freq |-> freq2,
                        distinct |-> IF freq2[y] = 0 THEN st.distinct - 1
                                     ELSE st.distinct,
                        l |-> st.l + 1])

\* the loop `for r, x in enumerate(arr)`
RECURSIVE sw_at_most_loop(_, _, _, _, _)
sw_at_most_loop(arr, k_, r_, st, best) ==
    IF r_ >= Len(arr) THEN best
    ELSE LET x == At(arr, r_)
             distinct2 == IF freq_get(st.freq, x) = 0 THEN st.distinct + 1
                          ELSE st.distinct
             freq2 == freq_set(st.freq, x, freq_get(st.freq, x) + 1)
             st2 == sw_shrink(arr, k_, [freq |-> freq2,
                                        distinct |-> distinct2,
                                        l |-> st.l])
             len == sw_window_len(st2.l, r_)
         IN  sw_at_most_loop(arr, k_, r_ + 1, st2,
                             IF len > best THEN len ELSE best)

sw_at_most_k_distinct_template(arr, k_) ==
    sw_at_most_loop(arr, k_, 0, [freq |-> <<>>, distinct |-> 0, l |-> 0], 0)

\* predicate(x), the predicate given by the set of values it accepts
predicate_call(predicate_, x) == x \in predicate_

\* the loop of tp_slow_fast_filter_template; read is the iterator's index
\* into the list being overwritten; yields <<nums, write>>
RECURSIVE tp_filter_loop(_, _, _, _)
tp_filter_loop(nums_, predicate_, read, write) ==
    IF read >= Len(nums_) THEN <<nums_, write>>
    ELSE LET x == At(nums_, read) IN
         IF predicate_call(predicate_, x)
         THEN tp_filter_loop([nums_ EXCEPT ![write + 1] = x], predicate_,
                             read + 1, write + 1)
         ELSE tp_filter_loop(nums_, predicate_, read + 1, write)

tp_slow_fast_filter_template_Truncate(nums_, predicate_) ==
    LET st == tp_filter_loop(nums_, predicate_, 0, 0) IN
    [ret |-> Some(st[2]), nums |-> SubSeq(st[1], 1, st[2])]

tp_slow_fast_filter_template(nums_, predicate_) ==
    LET st == tp_filter_loop(nums_, predicate_, 0, 0) IN
    [ret |-> Some(st[2]), nums |-> st[1]]

\* ------------------------------------------------------------ oop_showcase
\* User.age setter on an object whose _age is obj (None: not yet set)
age_setter(obj, value) ==
    IF value < 0 THEN [raised |-> TRUE, obj |-> obj]
    ELSE [raised |-> FALSE, obj |-> Some(value)]

\* User.__init__: `self.age = age` goes through the setter
user_init_Direct(age) == [raised |-> FALSE, obj |-> Some(age)]

user_init(age) == age_setter(None, age)

\* int(x) for x given in halves (x = h / 2): truncation toward zero
int_(h) == IF h >= 0 THEN h \div 2 ELSE 0 - ((0 - h) \div 2)

\* User.from_dict: cls(username=..., age=int(data["age"]))
from_dict(h) == user_init(int_(h))

\* BankAccount.deposit
deposit(balance_, amount) ==
    IF amount <= 0 THEN [raised |-> TRUE, balance |-> balance_]
    ELSE [raised |-> FALSE, balance |-> balance_ + amount]

\* BankAccount.withdraw
withdraw_NoFundsCheck(balance_, amount) ==
    IF amount <= 0 THEN [raised |-> TRUE, balance |-> balance_]
    ELSE [raised |-> FALSE, balance |-> balance_ - amount]

withdraw(balance_, amount) ==
    IF amount <= 0 THEN [raised |-> TRUE, balance |-> balance_]
    ELSE IF amount > balance_ THEN [raised |-> TRUE, balance |-> balance_]
    ELSE [raised |-> FALSE, balance |-> balance_ - amount]

\* self._listeners.get(event, [])
get_listeners(listeners_, event) ==
    IF event \in DOMAIN listeners_ THEN listeners_[event] ELSE <<>>

\* EventEmitter.on: setdefault(event, []).append(listener)
on(listeners_, event, listener) ==
    [e \in DOMAIN listeners_ \cup {event} |->
        IF e = event THEN Append(get_listeners(listeners_, event), listener)
        ELSE listeners_[e]]

\* list.remove(x): drops the first occurrence, ValueError if there is none
RECURSIVE list_remove(_, _)
list_remove(s, x) ==
    IF s = <<>> THEN [raised |-> TRUE, list |-> s]
    ELSE IF s[1] = x THEN [raised |-> FALSE, list |-> Tail(s)]
    ELSE LET rest == list_remove(Tail(s), x) IN
         [raised |-> rest.raised, list |-> <<s[1]>> \o rest.list]

\* EventEmitter.off: KeyError and ValueError are caught and dropped
off_RemoveAll(listeners_, event, listener) ==
    IF event \notin DOMAIN listeners_
    THEN [raised |-> FALSE, listeners |-> listeners_]
    ELSE LET keep(x) == x # listener IN
         [raised |-> FALSE,
          listeners |-> [listeners_ EXCEPT
                            ![event] = SelectSeq(listeners_[event], keep)]]

off(listeners_, event, listener) ==
    IF event \notin DOMAIN listeners_
    THEN [raised |-> FALSE, listeners |-> listeners_]
    ELSE LET rm == list_remove(listeners_[event], listener) IN
         [raised |-> FALSE,
          listeners |-> IF rm.raised THEN listeners_
                        ELSE [listeners_ EXCEPT ![event] = rm.list]]

\* listener(*args, **kwargs): what the call does to the emitter.  Listener 1
\* unsubscribes itself from event 1 when called (a run-once listener);
\* every other listener only prints.
listener_body(listeners_, listener) ==
    IF listener = 1 THEN off(listeners_, 1, listener).listeners
    ELSE listeners_

\* the loop of EventEmitter.emit over the registered list itself; i is the
\* iterator's index
RECURSIVE emit_loop(_, _, _, _)
emit_loop(listeners_, event, i, invoked_) ==
    IF i >= Len(listeners_[event])
    THEN [listeners |-> listeners_, invoked |-> invoked_]
    ELSE LET listener == At(listeners_[event], i) IN
         emit_loop(listener_body(listeners_, listener), event, i + 1,
                   Append(invoked_, listener))

\* EventEmitter.emit
emit(listeners_, event) ==
    IF event \notin DOMAIN listeners_
    THEN [listeners |-> listeners_, invoked |-> <<>>]
    ELSE emit_loop(listeners_, event, 0, <<>>)

\* ------------------------------------------------------------------ state
VARIABLES
    prog,      \* the script or function under execution
    pc,        \* position in it
    input,     \* the list the run was started with
    nums,      \* the list, as the code has modified it so far
    k,         \* window length argument
    target,    \* search target
    l, r, w,   \* pointers of the two-pointer loops
    res,       \* Exercise 11, Attempt 2: result list
    output,    \* Exercise 11, Attempt 1: result list
    ans,       \* Exercise 12: answer
    ret,       \* value(s) returned
    users,     \* User objects: None, or Some(_age)
    balance,   \* BankAccount.__balance
    lastOp,    \* last call: [name, obj, arg, raised]
    predicate, \* filter predicate: the set of values it accepts
    listeners, \* EventEmitter._listeners: event -> list of listeners
    invoked    \* listeners called by the last call, in call order

vars == <<prog, pc, input, nums, k, target, l, r, w, res, output, ans,
          ret, users, balance, lastOp, predicate, listeners, invoked>>

ListProgs == {"second_largest", "dedupe", "sw_fixed", "lc643", "at_most_k",
              "filter"}
SortedProgs == {"squares", "search", "lc26", "two_ends"}
ObjectProgs == {"user", "bank", "emitter"}
Progs == ListProgs \cup SortedProgs \cup ObjectProgs

UserIds == 1..NumUsers
Ages == (0 - MaxAge)..MaxAge
AgeData == (0 - 2 * MaxAge)..(2 * MaxAge)
Amounts == (0 - 1)..MaxAmount
InitBalances == (0 - 1)..MaxBalance
Events == 1..NumEvents
ListenerIds == 1..NumListeners
\* predicates `x != v` and `x > v`
Predicates == {{x \in Vals : x # v} : v \in Vals}
              \cup {{x \in Vals : x > v} : v \in Vals}

Op(name, obj, arg, raised) ==
    [name |-> name, obj |-> obj, arg |-> arg, raised |-> raised]

Init ==
    /\ prog \in Progs
    /\ pc = "start"
    /\ input \in (IF prog \in ListProgs THEN Lists
                  ELSE IF prog \in SortedProgs THEN SortedLists
                  ELSE {<<>>})
    /\ nums = input
    /\ k \in (IF prog \in {"sw_fixed", "lc643"} THEN 0..(MaxLen + 1)
              ELSE IF prog = "at_most_k" THEN 0..MaxLen
              ELSE {0})
    /\ target \in (IF prog = "search" THEN (MinVal - 1)..(MaxVal + 1)
                   ELSE IF prog = "two_ends"
                        THEN (2 * MinVal - 1)..(2 * MaxVal + 1)
                   ELSE {0})
    /\ l = 0 /\ r = 0 /\ w = 0
    /\ res = <<>>
    /\ output = <<>>
    /\ ans = 0
    /\ ret = None
    /\ users = [u \in UserIds |-> None]
    /\ balance \in (IF prog = "bank" THEN InitBalances ELSE {0})
    /\ lastOp = Op("init", 0, 0, FALSE)
    /\ predicate \in (IF prog = "filter" THEN Predicates ELSE {{}})
    /\ listeners = <<>>
    /\ invoked = <<>>

\* __main__ of second_largest_value_in_list.py: every function on one case
SecondLargestTest ==
    /\ prog = "second_largest"
    /\ pc = "start"
    /\ ret' = [yours    |-> second_largest_yours(nums),
               two_pass |-> second_largest_two_pass(nums),
               one_pass |-> second_largest_one_pass(nums),
               sort     |-> second_largest_sort(nums),
               set      |-> second_largest_set(nums)]
    /\ pc' = "done"
    /\ UNCHANGED <<predicate, listeners, invoked, prog, input, nums, k, target, l, r, w, res, output, ans,
                   users, balance, lastOp>>

\* remove_duplicates_with_set(nums): nums is rewritten in place and returned
CallRemoveDuplicatesWithSet ==
    /\ prog = "dedupe"
    /\ pc = "start"
    /\ nums' = remove_duplicates_with_set(nums)
    /\ ret' = nums'
    /\ lastOp' = Op("remove_duplicates_with_set", 0, 0, FALSE)
    /\ pc' = "done"
    /\ UNCHANGED <<predicate, listeners, invoked, prog, input, k, target, l, r, w, res, output, ans,
                   users, balance>>

\* remove_duplicates_no_set(nums): nums is rewritten in place and returned
CallRemoveDuplicatesNoSet ==
    /\ prog = "dedupe"
    /\ pc = "start"
    /\ nums' = remove_duplicates_no_set(nums)
    /\ ret' = nums'
    /\ lastOp' = Op("remove_duplicates_no_set", 0, 0, FALSE)
    /\ pc' = "done"
    /\ UNCHANGED <<predicate, listeners, invoked, prog, input, k, target, l, r, w, res, output, ans,
                   users, balance>>

\* Exercise 11, Attempt 1
SquaresAttempt1 ==
    /\ prog = "squares"
    /\ pc = "start"
    /\ output' = squares_attempt1(nums)
    /\ pc' = "attempt2"
    /\ UNCHANGED <<predicate, listeners, invoked, prog, input, nums, k, target, l, r, w, res, ans, ret,
                   users, balance, lastOp>>

\* Exercise 11, Attempt 2: res = [0] * n; l, r, w = 0, n - 1, n - 1
SquaresAttempt2Init ==
    /\ prog = "squares"
    /\ pc = "attempt2"
    /\ res' = [i \in 1..Len(nums) |-> 0]
    /\ l' = 0
    /\ r' = Len(nums) - 1
    /\ w' = Len(nums) - 1
    /\ pc' = "loop"
    /\ UNCHANGED <<predicate, listeners, invoked, prog, input, nums, k, target, output, ans, ret,
                   users, balance, lastOp>>

\* Exercise 11, Attempt 2: one iteration of `while l <= r`
SquaresAttempt2Step ==
    /\ prog = "squares"
    /\ pc = "loop"
    /\ l <= r
    /\ IF take_left(nums, l, r)
       THEN /\ res' = [res EXCEPT ![w + 1] = At(nums, l) * At(nums, l)]
            /\ l' = l + 1
            /\ r' = r
       ELSE /\ res' = [res EXCEPT ![w + 1] = At(nums, r) * At(nums, r)]
            /\ r' = r - 1
            /\ l' = l
    /\ w' = w - 1
    /\ UNCHANGED <<predicate, listeners, invoked, prog, pc, input, nums, k, target, output, ans, ret,
                   users, balance, lastOp>>

\* Exercise 11, Attempt 2: the loop ends, res is printed
SquaresAttempt2Exit ==
    /\ prog = "squares"
    /\ pc = "loop"
    /\ ~(l <= r)
    /\ pc' = "done"
    /\ UNCHANGED <<predicate, listeners, invoked, prog, input, nums, k, target, l, r, w, res, output, ans,
                   ret, users, balance, lastOp>>

\* Exercise 12, Attempt 2: l, r = 0, len(nums) - 1; ans = len(nums)
SearchInit ==
    /\ prog = "search"
    /\ pc = "start"
    /\ l' = 0
    /\ r' = Len(nums) - 1
    /\ ans' = Len(nums)
    /\ pc' = "loop"
    /\ UNCHANGED <<predicate, listeners, invoked, prog, input, nums, k, target, w, res, output, ret,
                   users, balance, lastOp>>

\* Exercise 12, Attempt 2: one iteration of `while l <= r`
SearchStep ==
    /\ prog = "search"
    /\ pc = "loop"
    /\ l <= r
    /\ LET mid == (l + r) \div 2 IN
       IF go_left(At(nums, mid), target)
       THEN /\ ans' = mid
            /\ r' = mid - 1
            /\ l' = l
       ELSE /\ l' = mid + 1
            /\ r' = r
            /\ ans' = ans
    /\ UNCHANGED <<predicate, listeners, invoked, prog, pc, input, nums, k, target, w, res, output, ret,
                   users, balance, lastOp>>

\* Exercise 12, Attempt 2: the loop ends, ans is printed
SearchExit ==
    /\ prog = "search"
    /\ pc = "loop"
    /\ ~(l <= r)
    /\ pc' = "done"
    /\ UNCHANGED <<predicate, listeners, invoked, prog, input, nums, k, target, l, r, w, res, output, ans,
                   ret, users, balance, lastOp>>

CallSwFixedK ==
    /\ prog = "sw_fixed"
    /\ pc = "start"
    /\ ret' = sw_fixed_k_template(nums, k)
    /\ pc' = "done"
    /\ UNCHANGED <<predicate, listeners, invoked, prog, input, nums, k, target, l, r, w, res, output, ans,
                   users, balance, lastOp>>

CallMaxAverageSubarray ==
    /\ prog = "lc643"
    /\ pc = "start"
    /\ ret' = max_average_subarray_lc643(nums, k)
    /\ pc' = "done"
    /\ UNCHANGED <<predicate, listeners, invoked, prog, input, nums, k, target, l, r, w, res, output, ans,
                   users, balance, lastOp>>

CallRemoveDuplicatesLc26 ==
    /\ prog = "lc26"
    /\ pc = "start"
    /\ ret' = remove_duplicates_lc26(nums).ret
    /\ nums' = remove_duplicates_lc26(nums).nums
    /\ pc' = "done"
    /\ UNCHANGED <<predicate, listeners, invoked, prog, input, k, target, l, r, w, res, output, ans,
                   users, balance, lastOp>>

\* u = User(username, age); on ValueError u keeps what it held
NewUser(u, age) ==
    /\ prog = "user"
    /\ LET out == user_init(age) IN
       /\ users' = IF out.raised THEN users ELSE [users EXCEPT ![u] = out.obj]
       /\ lastOp' = Op("User", u, age, out.raised)
    /\ UNCHANGED <<predicate, listeners, invoked, prog, pc, input, nums, k, target, l, r, w, res, output,
                   ans, ret, balance>>

\* u = User.from_dict({"username": ..., "age": h / 2})
UserFromDict(u, h) ==
    /\ prog = "user"
    /\ LET out == from_dict(h) IN
       /\ users' = IF out.raised THEN users ELSE [users EXCEPT ![u] = out.obj]
       /\ lastOp' = Op("from_dict", u, h, out.raised)
    /\ UNCHANGED <<predicate, listeners, invoked, prog, pc, input, nums, k, target, l, r, w, res, output,
                   ans, ret, balance>>

\* u.age = value
SetAge(u, value) ==
    /\ prog = "user"
    /\ users[u] # None
    /\ LET out == age_setter(users[u], value) IN
       /\ users' = [users EXCEPT ![u] = out.obj]
       /\ lastOp' = Op("set_age", u, value, out.raised)
    /\ UNCHANGED <<predicate, listeners, invoked, prog, pc, input, nums, k, target, l, r, w, res, output,
                   ans, ret, balance>>

\* acct.deposit(amount)
Deposit(amount) ==
    /\ prog = "bank"
    /\ balance + amount <= MaxBalance
    /\ LET out == deposit(balance, amount) IN
       /\ balance' = out.balance
       /\ lastOp' = Op("deposit", 0, amount, out.raised)
    /\ UNCHANGED <<predicate, listeners, invoked, prog, pc, input, nums, k, target, l, r, w, res, output,
                   ans, ret, users>>

\* acct.withdraw(amount)
Withdraw(amount) ==
    /\ prog = "bank"
    /\ LET out == withdraw(balance, amount) IN
       /\ balance' = out.balance
       /\ lastOp' = Op("withdraw", 0, amount, out.raised)
    /\ UNCHANGED <<predicate, listeners, invoked, prog, pc, input, nums, k, target, l, r, w, res, output,
                   ans, ret, users>>

CallTpTwoEnds ==
    /\ prog = "two_ends"
    /\ pc = "start"
    /\ ret' = tp_two_ends_template(nums, target)
    /\ pc' = "done"
    /\ UNCHANGED <<predicate, listeners, invoked, prog, input, nums, k, target, l, r, w, res, output, ans,
                   users, balance, lastOp>>

CallSwAtMostKDistinct ==
    /\ prog = "at_most_k"
    /\ pc = "start"
    /\ ret' = Some(sw_at_most_k_distinct_template(nums, k))
    /\ pc' = "done"
    /\ UNCHANGED <<predicate, listeners, invoked, prog, input, nums, k, target, l, r, w, res, output, ans,
                   users, balance, lastOp>>

CallTpSlowFastFilter ==
    /\ prog = "filter"
    /\ pc = "start"
    /\ ret' = tp_slow_fast_filter_template(nums, predicate).ret
    /\ nums' = tp_slow_fast_filter_template(nums, predicate).nums
    /\ pc' = "done"
    /\ UNCHANGED <<predicate, listeners, invoked, prog, input, k, target,
                   l, r, w, res, output, ans, users, balance, lastOp>>

\* number of registrations the emitter holds
RECURSIVE Registrations(_, _)
Registrations(listeners_, events) ==
    IF events = {} THEN 0
    ELSE LET e == CHOOSE x \in events : TRUE IN
         Len(listeners_[e]) + Registrations(listeners_, events \ {e})

\* emitter.on(event, listener)
On(event, listener) ==
    /\ prog = "emitter"
    /\ Registrations(listeners, DOMAIN listeners) < MaxRegs
    /\ listeners' = on(listeners, event, listener)
    /\ invoked' = <<>>
    /\ lastOp' = Op("on", event, listener, FALSE)
    /\ UNCHANGED <<predicate, prog, pc, input, nums, k, target, l, r, w, res,
                   output, ans, ret, users, balance>>

\* emitter.off(event, listener)
Off(event, listener) ==
    /\ prog = "emitter"
    /\ LET out == off(listeners, event, listener) IN
       /\ listeners' = out.listeners
       /\ lastOp' = Op("off", event, listener, out.raised)
    /\ invoked' = <<>>
    /\ UNCHANGED <<predicate, prog, pc, input, nums, k, target, l, r, w, res,
                   output, ans, ret, users, balance>>

\* emitter.emit(event, ...)
Emit(event) ==
    /\ prog = "emitter"
    /\ LET out == emit(listeners, event) IN
       /\ listeners' = out.listeners
       /\ invoked' = out.invoked
    /\ lastOp' = Op("emit", event, 0, FALSE)
    /\ UNCHANGED <<predicate, prog, pc, input, nums, k, target, l, r, w, res,
                   output, ans, ret, users, balance>>

Next ==
    \/ SecondLargestTest
    \/ CallRemoveDuplicatesWithSet
    \/ CallRemoveDuplicatesNoSet
    \/ SquaresAttempt1
    \/ SquaresAttempt2Init
    \/ SquaresAttempt2Step
    \/ SquaresAttempt2Exit
    \/ SearchInit
    \/ SearchStep
    \/ SearchExit
    \/ CallSwFixedK
    \/ CallMaxAverageSubarray
    \/ CallRemoveDuplicatesLc26
    \/ CallTpTwoEnds
    \/ CallSwAtMostKDistinct
    \/ CallTpSlowFastFilter
    \/ \E u \in UserIds, age \in Ages : NewUser(u, age)
    \/ \E u \in UserIds, h \in AgeData : UserFromDict(u, h)
    \/ \E u \in UserIds, value \in Ages : SetAge(u, value)
    \/ \E amount \in Amounts : Deposit(amount)
    \/ \E amount \in Amounts : Withdraw(amount)
    \/ \E event \in Events, listener \in ListenerIds : On(event, listener)
    \/ \E event \in Events, listener \in ListenerIds : Off(event, listener)
    \/ \E event \in Events : Emit(event)

Spec == Init /\ [][Next]_vars

\* ----------------------------------------------------------------- claims

\* C1: second_largest_one_pass(nums) is the largest value of nums strictly
\* below the maximum of nums, and None when nums has fewer than two
\* distinct values.
C1_OnePassIsSecondLargest ==
    (prog = "second_largest" /\ pc = "done") =>
        LET below == {x \in SetOf(input) :
                        \E y \in SetOf(input) : x < y
                        /\ \A z \in SetOf(input) : z <= y}
        IN  /\ Cardinality(SetOf(input)) < 2 => ret.one_pass = None
            /\ Cardinality(SetOf(input)) >= 2 =>
                  \E v \in below : /\ ret.one_pass = Some(v)
                                   /\ \A x \in below : x <= v

C1_Witness ==
    /\ prog = "second_largest" /\ pc = "done"
    /\ input = <<2, 1, 2>>
    /\ ret.one_pass = Some(1)

\* C2: the five approaches return the same result on every list.
C2_FiveApproachesAgree ==
    (prog = "second_largest" /\ pc = "done") =>
        /\ ret.yours = ret.one_pass
        /\ ret.two_pass = ret.one_pass
        /\ ret.sort = ret.one_pass
        /\ ret.set = ret.one_pass

C2_Witness ==
    /\ prog = "second_largest" /\ pc = "done"
    /\ input = <<-1, -2, -1>>
    /\ ret.set = Some(-2)
    /\ ret.yours = Some(-2)

\* C5: remove_duplicates_no_set and remove_duplicates_with_set rewrite nums
\* in place and return it, holding each distinct value of the original list
\* exactly once, in the order of first occurrence.
C5_DedupeKeepsFirstOccurrences ==
    (prog = "dedupe" /\ pc = "done") =>
        LET firsts == {i \in DOMAIN input :
                         \A j \in 1..(i - 1) : input[j] # input[i]}
        IN  /\ ret = nums
            /\ Len(nums) = Cardinality(firsts)
            /\ \A p \in DOMAIN nums :
                 \E i \in firsts :
                    /\ nums[p] = input[i]
                    /\ Cardinality({j \in firsts : j < i}) = p - 1

C5_Witness ==
    /\ prog = "dedupe" /\ pc = "done"
    /\ input = <<2, 1, 2>>
    /\ nums = <<2, 1>>
    /\ lastOp.name = "remove_duplicates_with_set"

\* C3: assigning a negative value to User.age raises ValueError and leaves
\* the stored age unchanged, and no User object ever holds a negative age
\* (the constructor and from_dict assign through the same setter).
C3_NegativeAgeRejected ==
    /\ [](\A u \in UserIds : \A a \in users[u] : a >= 0)
    /\ [][(prog = "user" /\ lastOp'.name = "set_age" /\ lastOp'.arg < 0)
            => (lastOp'.raised /\ users' = users)]_vars
    /\ [][(prog = "user" /\ lastOp'.name \in {"User", "from_dict"}
           /\ lastOp'.raised) => users' = users]_vars

C3_Witness ==
    /\ prog = "user"
    /\ lastOp = Op("set_age", 1, 0 - 1, TRUE)
    /\ users[1] = Some(2)
    /\ users[2] = Some(0)

\* C4: deposit(amount) with amount <= 0, and withdraw(amount) with
\* amount <= 0 or amount > balance, raise ValueError and leave the balance
\* unchanged; every other deposit adds exactly amount and every other
\* withdraw subtracts exactly amount.
C4_BankAccountGuards ==
    [][prog = "bank" =>
         /\ lastOp'.name = "deposit" =>
              IF lastOp'.arg <= 0
              THEN lastOp'.raised /\ balance' = balance
              ELSE ~lastOp'.raised /\ balance' = balance + lastOp'.arg
         /\ lastOp'.name = "withdraw" =>
              IF lastOp'.arg <= 0 \/ lastOp'.arg > balance
              THEN lastOp'.raised /\ balance' = balance
              ELSE ~lastOp'.raised /\ balance' = balance - lastOp'.arg]_vars

C4_Witness ==
    /\ prog = "bank"
    /\ lastOp = Op("withdraw", 0, 3, TRUE)
    /\ balance = 2

\* C6: on a sorted array the binary search of Exercise 12 ends with ans the
\* index of target if target is in nums, and otherwise the insertion index:
\* the smallest i with nums[i] >= target, or len(nums) if there is none.
C6_SearchInsertPosition ==
    (prog = "search" /\ pc = "done") =>
        LET n == Len(nums)
            cands == {i \in 0..(n - 1) : At(nums, i) >= target}
        IN  /\ cands = {} => ans = n
            /\ cands # {} => (ans \in cands /\ \A i \in cands : ans <= i)
            /\ (\E i \in 0..(n - 1) : At(nums, i) = target)
                  => (ans < n /\ At(nums, ans) = target)
            /\ IsSorted(SubSeq(nums, 1, ans) \o <<target>>
                        \o SubSeq(nums, ans + 1, n))

C6_Witness ==
    /\ prog = "search" /\ pc = "done"
    /\ nums = <<-1, 0, 2, 2>>
    /\ target = 1
    /\ ans = 2

\* C7: on a sorted array the two-pointer loop of Exercise 11 fills res so
\* that res is sorted in non-decreasing order and equals the list of
\* Attempt 1: the squares of all elements of nums, sorted.
C7_SortedSquares ==
    (prog = "squares" /\ pc = "done") =>
        /\ IsSorted(res)
        /\ res = output
        /\ Len(res) = Len(nums)
        /\ \A v \in 0..(MaxVal * MaxVal) :
             Cardinality({i \in DOMAIN res : res[i] = v})
               = Cardinality({i \in DOMAIN nums : nums[i] * nums[i] = v})

C7_Witness ==
    /\ prog = "squares" /\ pc = "done"
    /\ nums = <<-2, -1, 0, 1>>
    /\ res = <<0, 1, 1, 4>>

\* C8: sw_fixed_k_template(nums, k) is the maximum sum over all contiguous
\* windows of nums of length exactly k when 1 <= k <= len(nums), and None
\* when k == 0 or k > len(nums).
C8_FixedWindowMaxSum ==
    (prog = "sw_fixed" /\ pc = "done") =>
        LET n == Len(nums)
            sums == {Sum(SubSeq(nums, i, i + k - 1)) : i \in 1..(n - k + 1)}
        IN  IF k = 0 \/ k > n THEN ret = None
            ELSE \E v \in sums : ret = Some(v) /\ \A x \in sums : x <= v

C8_Witness ==
    /\ prog = "sw_fixed" /\ pc = "done"
    /\ nums = <<1, -2, 2, 1>>
    /\ k = 2
    /\ ret = Some(3)

\* C9: max_average_subarray_lc643(nums, k) returns the maximum average of
\* a contiguous subarray of length k: the maximum window sum divided by k.
C9_MaxAverageReturned ==
    (prog = "lc643" /\ pc = "done" /\ 1 <= k /\ k <= Len(nums)) =>
        LET n == Len(nums)
            sums == {Sum(SubSeq(nums, i, i + k - 1)) : i \in 1..(n - k + 1)}
        IN  \E v \in ret : v * k = SetMax(sums)

\* C10: remove_duplicates_lc26(nums) returns the new length k, and nums[:k]
\* holds the distinct values of the original sorted array in sorted order.
C10_Lc26ReturnsLength ==
    (prog = "lc26" /\ pc = "done") =>
        \E kk \in ret :
            /\ kk = Cardinality(SetOf(input))
            /\ kk <= Len(nums)
            /\ SetOf(SubSeq(nums, 1, kk)) = SetOf(input)
            /\ \A i \in 1..(kk - 1) : nums[i] < nums[i + 1]

\* C11: on a sorted array tp_two_ends_template(nums, target) returns a pair
\* (l, r) with l < r and nums[l] + nums[r] == target whenever two distinct
\* positions with that sum exist, and None only when none exist.
C11_TwoEndsFindsPair ==
    (prog = "two_ends" /\ pc = "done") =>
        LET n == Len(nums)
            pairs == {p \in (0..(n - 1)) \X (0..(n - 1)) :
                        p[1] < p[2] /\ At(nums, p[1]) + At(nums, p[2]) = target}
        IN  /\ pairs # {} => \E p \in pairs : ret = Some(p)
            /\ pairs = {} => ret = None

C11_Witness ==
    /\ prog = "two_ends" /\ pc = "done"
    /\ nums = <<-2, 0, 1, 2>>
    /\ target = 1
    /\ ret = Some(<<1, 2>>)

\* C12: for every list arr and k >= 0, sw_at_most_k_distinct_template(arr, k)
\* is the length of the longest contiguous subarray of arr with at most k
\* distinct values (0 for an empty list or k = 0).
C12_LongestAtMostKDistinct ==
    (prog = "at_most_k" /\ pc = "done") =>
        LET n == Len(nums)
            lens == {0} \cup
                    {j - i + 1 : <<i, j>> \in
                       {p \in (1..n) \X (1..n) :
                          /\ p[1] <= p[2]
                          /\ Cardinality({nums[q] : q \in p[1]..p[2]}) <= k}}
        IN  /\ \E v \in lens : ret = Some(v) /\ \A x \in lens : x <= v
            /\ (n = 0 \/ k = 0) => ret = Some(0)

C12_Witness ==
    /\ prog = "at_most_k" /\ pc = "done"
    /\ nums = <<1, 2, 1, 0>>
    /\ k = 2
    /\ ret = Some(3)

\* C13: tp_slow_fast_filter_template(nums, predicate) returns the number w of
\* elements of the original list that satisfy predicate; on return nums[:w]
\* is those elements in their original order, len(nums) is unchanged and
\* every position at index >= w holds the value it held before the call.
C13_FilterFrame ==
    (prog = "filter" /\ pc = "done") =>
        LET keep(x) == x \in predicate
            kept == SelectSeq(input, keep)
        IN  /\ ret = Some(Len(kept))
            /\ Len(nums) = Len(input)
            /\ SubSeq(nums, 1, Len(kept)) = kept
            /\ \A i \in (Len(kept) + 1)..Len(input) : nums[i] = input[i]

C13_Witness ==
    /\ prog = "filter" /\ pc = "done"
    /\ input = <<0, 1, 0, 2>>
    /\ predicate = Vals \ {0}
    /\ nums = <<1, 2, 0, 2>>
    /\ ret = Some(2)

\* C14: emit(event) invokes exactly the listeners registered for that event
\* when it is called, once per registration and in registration order, and
\* no others; on an event with no listeners it invokes nothing and leaves
\* the listener table unchanged.
C14_EmitInvokesRegistered ==
    [][(prog = "emitter" /\ lastOp'.name = "emit") =>
          LET regs == get_listeners(listeners, lastOp'.obj) IN
          /\ invoked' = regs
          /\ regs = <<>> => listeners' = listeners]_vars

\* C15: off(event, listener) removes exactly one registration of listener
\* for event, the earliest one, so that a listener registered once is not
\* invoked by later emits; when the event is unknown or the listener is not
\* registered for it, off raises nothing and changes no registration.
C15_OffRemovesEarliest ==
    /\ [][(prog = "emitter" /\ lastOp'.name = "off") =>
            LET event == lastOp'.obj
                listener == lastOp'.arg
                regs == get_listeners(listeners, event)
                at == {i \in DOMAIN regs : regs[i] = listener}
            IN  /\ ~lastOp'.raised
                /\ at = {} => listeners' = listeners
                /\ at # {} =>
                     LET i == CHOOSE x \in at : \A y \in at : x <= y IN
                     /\ DOMAIN listeners' = DOMAIN listeners
                     /\ listeners'[event] = SubSeq(regs, 1, i - 1)
                                            \o SubSeq(regs, i + 1, Len(regs))
                     /\ \A e \in DOMAIN listeners \ {event} :
                           listeners'[e] = listeners[e]
                     /\ Cardinality(at) = 1 =>
                           \A j \in DOMAIN listeners'[event] :
                              listeners'[event][j] # listener]_vars
    /\ [][(prog = "emitter" /\ lastOp'.name = "emit") =>
            \A j \in DOMAIN invoked' :
               \E i \in DOMAIN get_listeners(listeners, lastOp'.obj) :
                  get_listeners(listeners, lastOp'.obj)[i] = invoked'[j]]_vars

C15_Witness ==
    /\ prog = "emitter"
    /\ lastOp = Op("off", 2, 2, FALSE)
    /\ 2 \in DOMAIN listeners
    /\ listeners[2] = <<1, 2>>
====
